---- MODULE Spec2Model ----
(***************************************************************************)
(* SimpleTimer (src/src/index.ts): named countdown timers with Start,      *)
(* Pause, Resume, Stop, Destroy and Copy, a registry of timers by name,    *)
(* and the tick loop each Start/Resume spawns on the host scheduler.       *)
(*                                                                         *)
(* Scheduling (host contract): one flow of control; a thread runs until    *)
(* it suspends.  task.spawn runs the new thread at once, up to its first   *)
(* suspension, and then returns to the spawner.  task.wait suspends the    *)
(* thread until the scheduler resumes it; task.cancel makes a suspended    *)
(* thread never run again.  coroutine.yield suspends the RUNNING thread    *)
(* (its arguments are only values handed to the resumer); a thread         *)
(* suspended that way runs again only if somebody resumes it, and nothing  *)
(* in this program does.                                                   *)
(***************************************************************************)
EXTENDS Integers, Sequences, FiniteSets, TLC

VARIABLES
    timer,      \* the TimerInstance objects made so far, by identity 1..Len(timer)
    Timers,     \* the registry: the Map from Name to a timer's identity
    thread,     \* per timer: the state of each tick-loop thread spawned for it, in order
    hist,       \* per timer: the calls made on it and what was published, in order
    made,       \* per timer: how it was made (CreateTimer or Copy) and whether AutoDestroy: false was asked
    calls,      \* calls that took effect so far
    outcome     \* the last call made: which, on which timer, from where, and how it ended

vars == <<timer, Timers, thread, hist, made, calls, outcome>>

\* ---------------------------------------------------------------- bounds
MaxTimers == 2          \* timers made in one run (CreateTimer and Copy)
MaxCalls == 6           \* calls in one run while at most one timer exists
MaxSharedCalls == 4     \* calls in one run once a second timer exists
MaxDuration == 3
MaxTick == 2

\* ------------------------------------------------------------- constants
Started == "started"
Completed == "completed"
Paused == "paused"
Running == "running"
Stopped == "stopped"
TIMER_STATUSES == {Started, Completed, Paused, Running, Stopped}

\* timerThread: undefined
None == 0

\* an optional field of timerData: absent, or present with a value of S
Optional(S) == {{}} \cup {{x} : x \in S}
Names == {"T1", "T1_copy"}
Durations == 0..MaxDuration
Ticks == Optional(0..MaxTick)
AutoDestroys == Optional(BOOLEAN)
TimerData == [Name : Names, Duration : Durations, Tick : Ticks, AutoDestroy : AutoDestroys]

\* `Tick || 1`: 1 when Tick is absent or falsy (0), else Tick
TickOrDefault(opt) == IF opt = {} \/ opt = {0} THEN 1 ELSE CHOOSE x \in opt : TRUE

\* `AutoDestroy || true`: true when AutoDestroy is absent or falsy (false), else AutoDestroy
AutoDestroyOrDefault(opt) == IF opt = {} \/ opt = {FALSE} THEN TRUE ELSE CHOOSE x \in opt : TRUE

\* ------------------------------------------------------------ the history
\* One entry of hist: k the kind, th the thread that ran (0: the caller's),
\* v the remaining time and s the status at that moment.  The kinds:
\*   "Start" "Pause" "Resume" "Stop" "Destroy"  a call that passed its guard
\*        (v, s: as the call found them; th: the thread Start/Resume spawned)
\*   "return"      that call returned
\*   "onTick" "completed" "statusChanged"   an event reached the subscribers
\*   "wait"        the loop suspended in task.wait
\*   "Completed"   the loop set the status Completed
\*   "autoDestroy" the loop called Destroy
\*   "yield"       Destroy suspended its thread in coroutine.yield
\*   "destroyed"   Destroy ran to its end
\*   "cancel"      Pause or Stop called task.cancel on thread th
Ev(k, th, v, s) == [k |-> k, th |-> th, v |-> v, s |-> s]
LifecycleOps == {"Start", "Pause", "Resume", "Stop", "Destroy"}

\* BindableEvent.Fire: reaches the subscribers unless the event was destroyed
Fire(alive, k, th, v, s) == IF alive THEN <<Ev(k, th, v, s)>> ELSE <<>>

\* How a call ended: "returned"; "ignored" (returned at its guard); "error"
\* (it raised); "suspended" (its thread stopped in coroutine.yield).
\* isServer is what RunService.IsServer() answers where the call is made;
\* only CreateTimer asks, and the handles exist only where it answered true.
Called(op, t, result) == [op |-> op, t |-> t, result |-> result, isServer |-> TRUE]

\* ------------------------------------------------------------ the registry
MapSet_KeepFirst(m, key, val) ==
    IF key \in DOMAIN m THEN m ELSE [n \in (DOMAIN m) \cup {key} |-> IF n = key THEN val ELSE m[n]]

\* Map.set
MapSet(m, key, val) == [n \in (DOMAIN m) \cup {key} |-> IF n = key THEN val ELSE m[n]]
\* Map.delete
MapDelete(m, key) == [n \in (DOMAIN m) \ {key} |-> m[n]]
\* Map.get: the identity registered under key, or None
Lookup(key) == IF key \in DOMAIN Timers THEN Timers[key] ELSE None

\* --------------------------------------------------------------- Destroy
\* The body of Destroy on timer record tm with registry reg, run by thread th
\* (0: an outside caller).  Returns the record, the registry, what it
\* published and whether it ran to its end: with timerThread set, the
\* coroutine.yield of line 137 suspends whoever runs Destroy, and the
\* cancel, the clearing of timerThread and the registry delete never run.
DestroyBody(tm, reg, th) ==
    LET d == [tm EXCEPT !.Status = Stopped, !.completed = FALSE, !.statusChanged = FALSE]
    IN  IF d.timerThread # None
        THEN [tm |-> d, reg |-> reg, log |-> <<Ev("yield", th, d.RemainingTime, d.Status)>>,
              returned |-> FALSE]
        ELSE [tm |-> d, reg |-> MapDelete(reg, d.Name),
              log |-> <<Ev("destroyed", th, d.RemainingTime, d.Status)>>,
              returned |-> TRUE]

\* ------------------------------------------------------------- tick loop
\* the while condition of run
LoopCond(tm) == tm.RemainingTime > 0 /\ tm.Status = Running

TickValue_AfterDecrement(tm) == tm.RemainingTime - tm.Tick

\* the value onTick carries in the loop: the remaining time before the decrement
TickValue(tm) == tm.RemainingTime

\* the decrement of one tick
Decrement(tm) == [tm EXCEPT !.RemainingTime = tm.RemainingTime - tm.Tick]

CompletionEvents_TickFirst(tm, th) ==
    Fire(tm.onTick, "onTick", th, tm.RemainingTime, tm.Status)
    \o Fire(tm.completed, "completed", th, tm.RemainingTime, tm.Status)
    \o Fire(tm.statusChanged, "statusChanged", th, tm.RemainingTime, tm.Status)

\* what the completion block publishes, in order (tm already Completed)
CompletionEvents(tm, th) ==
    Fire(tm.completed, "completed", th, tm.RemainingTime, tm.Status)
    \o Fire(tm.statusChanged, "statusChanged", th, tm.RemainingTime, tm.Status)
    \o Fire(tm.onTick, "onTick", th, tm.RemainingTime, tm.Status)

\* whether a completed timer destroys itself
ShouldAutoDestroy(tm) == tm.AutoDestroy

\* run, after the loop: the completion block, or nothing.  st is the state
\* the thread is left in.
AfterLoop(tm, reg, th) ==
    IF tm.RemainingTime <= 0 /\ tm.Status = Running
    THEN LET c == [tm EXCEPT !.Status = Completed]
             evs == <<Ev("Completed", th, c.RemainingTime, c.Status)>> \o CompletionEvents(c, th)
         IN  IF ShouldAutoDestroy(c)
             THEN LET d == DestroyBody(c, reg, th)
                  IN  [tm |-> d.tm, reg |-> d.reg,
                       log |-> evs \o <<Ev("autoDestroy", th, c.RemainingTime, c.Status)>> \o d.log,
                       st |-> IF d.returned THEN "dead" ELSE "suspended"]
             ELSE [tm |-> c, reg |-> reg, log |-> evs, st |-> "dead"]
    ELSE [tm |-> tm, reg |-> reg, log |-> <<>>, st |-> "dead"]

\* run, at the head of the loop: suspend in task.wait, or leave the loop
LoopHead(tm, reg, th) ==
    IF LoopCond(tm)
    THEN [tm |-> tm, reg |-> reg, log |-> <<Ev("wait", th, tm.RemainingTime, tm.Status)>>,
          st |-> "waiting"]
    ELSE AfterLoop(tm, reg, th)

\* run, from the return of task.wait to the next suspension or the end
AfterWait(tm, reg, th) ==
    LET ticked == Decrement(tm)
        r == IF ticked.Status # Running
             THEN AfterLoop(ticked, reg, th)
             ELSE LoopHead(ticked, reg, th)
    IN  [r EXCEPT !.log = Fire(tm.onTick, "onTick", th, TickValue(tm), tm.Status) \o r.log]

\* task.cancel on the threads
Cancel(thr, th) ==
    IF th # None /\ thr[th] \in {"waiting", "suspended"}
    THEN [thr EXCEPT ![th] = "cancelled"]
    ELSE thr

\* ----------------------------------------------------------------- state
\* the calls a run may still make (a bound of the model, not of the program)
Budget == IF Len(timer) <= 1 THEN MaxCalls ELSE MaxSharedCalls
CreateBudget == IF Len(timer) = 0 THEN MaxCalls ELSE MaxSharedCalls
MaxThreads == IF MaxCalls > MaxSharedCalls THEN MaxCalls ELSE MaxSharedCalls

Init ==
    /\ timer = <<>>
    /\ Timers = [n \in {} |-> None]
    /\ thread = <<>>
    /\ hist = <<>>
    /\ made = <<>>
    /\ calls = 0
    /\ outcome = Called("constructor", 0, "returned")

NewTimer_Started(data) ==
    [Name |-> data.Name, Duration |-> data.Duration, Tick |-> TickOrDefault(data.Tick),
     RemainingTime |-> data.Duration, AutoDestroy |-> AutoDestroyOrDefault(data.AutoDestroy),
     Status |-> Started, completed |-> TRUE, statusChanged |-> TRUE, onTick |-> TRUE,
     timerThread |-> None]

\* CreateTimer(timerData), called where RunService.IsServer() is isServer
NewTimer(data) ==
    [Name |-> data.Name, Duration |-> data.Duration, Tick |-> TickOrDefault(data.Tick),
     RemainingTime |-> data.Duration, AutoDestroy |-> AutoDestroyOrDefault(data.AutoDestroy),
     Status |-> Stopped, completed |-> TRUE, statusChanged |-> TRUE, onTick |-> TRUE,
     timerThread |-> None]

Permitted_Anywhere(isServer) == TRUE

\* the check of line 47: creation goes on only where IsServer() is true
Permitted(isServer) == isServer

CreateTimer(data, isServer) ==
    /\ Len(timer) < MaxTimers
    /\ calls < CreateBudget
    /\ IF ~Permitted(isServer)
       THEN /\ outcome' = [Called("CreateTimer", 0, "error") EXCEPT !.isServer = isServer]
            /\ UNCHANGED <<timer, Timers, thread, hist, made, calls>>
       ELSE /\ timer' = Append(timer, NewTimer(data))
            /\ Timers' = MapSet(Timers, data.Name, Len(timer) + 1)
            /\ thread' = Append(thread, <<>>)
            /\ hist' = Append(hist, <<>>)
            /\ made' = Append(made, [by |-> "CreateTimer", of |-> 0,
                                     askedFalse |-> data.AutoDestroy = {FALSE}])
            /\ calls' = calls + 1
            /\ outcome' = [Called("CreateTimer", Len(timer) + 1, "returned")
                             EXCEPT !.isServer = isServer]

\* Start and Resume after their guard: set Running, spawn run, keep the
\* thread, publish statusChanged.
Spawn(t, op) ==
    LET th == Len(thread[t]) + 1
        tm == [timer[t] EXCEPT !.Status = Running]
        r == LoopHead(tm, Timers, th)
        after == [r.tm EXCEPT !.timerThread = th]
    IN  /\ timer' = [timer EXCEPT ![t] = after]
        /\ Timers' = r.reg
        /\ thread' = [thread EXCEPT ![t] = Append(@, r.st)]
        /\ hist' = [hist EXCEPT ![t] =
                      @ \o <<Ev(op, th, timer[t].RemainingTime, timer[t].Status)>>
                        \o r.log
                        \o Fire(after.statusChanged, "statusChanged", 0, after.RemainingTime, after.Status)
                        \o <<Ev("return", 0, after.RemainingTime, after.Status)>>]
        /\ calls' = calls + 1
        /\ outcome' = Called(op, t, "returned")
        /\ UNCHANGED made

\* a call that returns at its guard
Ignore(t, op) ==
    /\ outcome' = Called(op, t, "ignored")
    /\ UNCHANGED <<timer, Timers, thread, hist, made, calls>>

\* the guards: the statuses in which each call returns at once
StartIgnored(tm) == tm.Status = Running
PauseIgnored(tm) == tm.Status # Running
ResumeIgnored(tm) == tm.Status # Paused
StopIgnored_Never(tm) == FALSE
StopIgnored(tm) == tm.Status = Stopped

Start(t) ==
    /\ t \in 1..Len(timer)
    /\ IF StartIgnored(timer[t])
       THEN Ignore(t, "Start")
       ELSE calls < Budget /\ Spawn(t, "Start")

Resume(t) ==
    /\ t \in 1..Len(timer)
    /\ IF ResumeIgnored(timer[t])
       THEN Ignore(t, "Resume")
       ELSE calls < Budget /\ Spawn(t, "Resume")

\* the fields Pause sets
PauseFields(tm) == [tm EXCEPT !.Status = Paused]

\* the fields Stop sets
StopFields(tm) == [tm EXCEPT !.Status = Stopped, !.RemainingTime = tm.Duration]

\* the mark task.cancel leaves in the history
Cancelled(th, tm) == IF th # None THEN <<Ev("cancel", th, tm.RemainingTime, tm.Status)>> ELSE <<>>

\* Pause and Stop after their guard: set the fields, publish statusChanged,
\* then cancel timerThread and clear it.
Halt(t, op, tm) ==
    /\ timer' = [timer EXCEPT ![t] = [tm EXCEPT !.timerThread = None]]
    /\ thread' = [thread EXCEPT ![t] = Cancel(@, tm.timerThread)]
    /\ hist' = [hist EXCEPT ![t] =
                  @ \o <<Ev(op, 0, timer[t].RemainingTime, timer[t].Status)>>
                    \o Fire(tm.statusChanged, "statusChanged", 0, tm.RemainingTime, tm.Status)
                    \o Cancelled(tm.timerThread, tm)
                    \o <<Ev("return", 0, tm.RemainingTime, tm.Status)>>]
    /\ calls' = calls + 1
    /\ outcome' = Called(op, t, "returned")
    /\ UNCHANGED <<Timers, made>>

Pause(t) ==
    /\ t \in 1..Len(timer)
    /\ IF PauseIgnored(timer[t])
       THEN Ignore(t, "Pause")
       ELSE calls < Budget /\ Halt(t, "Pause", PauseFields(timer[t]))

Stop(t) ==
    /\ t \in 1..Len(timer)
    /\ IF StopIgnored(timer[t])
       THEN Ignore(t, "Stop")
       ELSE calls < Budget /\ Halt(t, "Stop", StopFields(timer[t]))

\* Destroy called from outside the tick loop (no guard)
Destroy(t) ==
    /\ t \in 1..Len(timer)
    /\ calls < Budget
    /\ LET d == DestroyBody(timer[t], Timers, 0)
       IN  /\ timer' = [timer EXCEPT ![t] = d.tm]
           /\ Timers' = d.reg
           /\ hist' = [hist EXCEPT ![t] =
                         @ \o <<Ev("Destroy", 0, timer[t].RemainingTime, timer[t].Status)>>
                           \o d.log
                           \o (IF d.returned
                               THEN <<Ev("return", 0, d.tm.RemainingTime, d.tm.Status)>>
                               ELSE <<>>)]
           /\ calls' = calls + 1
           /\ outcome' = Called("Destroy", t, IF d.returned THEN "returned" ELSE "suspended")
           /\ UNCHANGED <<thread, made>>

CopyOf_Fresh(tm) ==
    [Name |-> tm.Name \o "_copy", Duration |-> tm.Duration, Tick |-> tm.Tick,
     RemainingTime |-> tm.Duration, AutoDestroy |-> tm.AutoDestroy,
     Status |-> tm.Status, completed |-> TRUE, statusChanged |-> TRUE, onTick |-> TRUE,
     timerThread |-> None]

\* Copy: a new timer, not registered, with no thread
CopyOf(tm) ==
    [Name |-> tm.Name \o "_copy", Duration |-> tm.Duration, Tick |-> tm.Tick,
     RemainingTime |-> tm.RemainingTime, AutoDestroy |-> tm.AutoDestroy,
     Status |-> tm.Status, completed |-> TRUE, statusChanged |-> TRUE, onTick |-> TRUE,
     timerThread |-> None]

Copy(t) ==
    /\ t \in 1..Len(timer)
    /\ Len(timer) < MaxTimers
    /\ calls < CreateBudget
    /\ timer' = Append(timer, CopyOf(timer[t]))
    /\ thread' = Append(thread, <<>>)
    /\ hist' = Append(hist, <<>>)
    /\ made' = Append(made, [by |-> "Copy", of |-> t, askedFalse |-> FALSE])
    /\ calls' = calls + 1
    /\ outcome' = Called("Copy", Len(timer) + 1, "returned")
    /\ UNCHANGED Timers

\* the scheduler resumes a thread suspended in task.wait
Wake(t, th) ==
    /\ t \in 1..Len(timer)
    /\ th \in 1..Len(thread[t])
    /\ thread[t][th] = "waiting"
    /\ LET r == AfterWait(timer[t], Timers, th)
       IN  /\ timer' = [timer EXCEPT ![t] = r.tm]
           /\ Timers' = r.reg
           /\ thread' = [thread EXCEPT ![t][th] = r.st]
           /\ hist' = [hist EXCEPT ![t] = @ \o r.log]
           /\ UNCHANGED <<made, calls, outcome>>

Next ==
    \/ \E data \in TimerData, isServer \in BOOLEAN : CreateTimer(data, isServer)
    \/ \E t \in 1..MaxTimers : Start(t)
    \/ \E t \in 1..MaxTimers : Pause(t)
    \/ \E t \in 1..MaxTimers : Resume(t)
    \/ \E t \in 1..MaxTimers : Stop(t)
    \/ \E t \in 1..MaxTimers : Destroy(t)
    \/ \E t \in 1..MaxTimers : Copy(t)
    \/ \E t \in 1..MaxTimers, th \in 1..MaxThreads : Wake(t, th)

Spec == Init /\ [][Next]_vars

\* ---------------------------------------------- calls made by a subscriber
\* Pause and Stop after their guard, when a subscriber of statusChanged
\* answers the notification by calling Start or Resume (reaction) on the
\* timer at once.  The call runs inside Fire, between the assignment of
\* the status and the cancel: it spawns a loop and stores it in
\* timerThread, and the cancel that follows takes that one.
Notified(t, op, tm, reaction) ==
    LET th == Len(thread[t]) + 1
        r == LoopHead([tm EXCEPT !.Status = Running], Timers, th)
        inner == [r.tm EXCEPT !.timerThread = th]
    IN  /\ tm.statusChanged
        /\ IF reaction = "Start" THEN ~StartIgnored(tm) ELSE ~ResumeIgnored(tm)
        /\ timer' = [timer EXCEPT ![t] = [inner EXCEPT !.timerThread = None]]
        /\ Timers' = r.reg
        /\ thread' = [thread EXCEPT ![t] = Cancel(Append(@, r.st), th)]
        /\ hist' = [hist EXCEPT ![t] =
                      @ \o <<Ev(op, 0, timer[t].RemainingTime, timer[t].Status)>>
                        \o Fire(tm.statusChanged, "statusChanged", 0, tm.RemainingTime, tm.Status)
                        \o <<Ev(reaction, th, tm.RemainingTime, tm.Status)>>
                        \o r.log
                        \o Fire(inner.statusChanged, "statusChanged", 0, inner.RemainingTime, inner.Status)
                        \o <<Ev("return", 0, inner.RemainingTime, inner.Status)>>
                        \o Cancelled(th, inner)
                        \o <<Ev("return", 0, inner.RemainingTime, inner.Status)>>]
        /\ calls' = calls + 2
        /\ outcome' = Called(op, t, "returned")
        /\ UNCHANGED made

PauseNotified(t, reaction) ==
    /\ t \in 1..Len(timer)
    /\ ~PauseIgnored(timer[t])
    /\ calls + 1 < Budget
    /\ Notified(t, "Pause", PauseFields(timer[t]), reaction)

StopNotified(t, reaction) ==
    /\ t \in 1..Len(timer)
    /\ ~StopIgnored(timer[t])
    /\ calls + 1 < Budget
    /\ Notified(t, "Stop", StopFields(timer[t]), reaction)

NextNotified ==
    \/ Next
    \/ \E t \in 1..MaxTimers, reaction \in {"Start", "Resume"} : PauseNotified(t, reaction)
    \/ \E t \in 1..MaxTimers, reaction \in {"Start", "Resume"} : StopNotified(t, reaction)

SpecNotified == Init /\ [][NextNotified]_vars

\* ------------------------------------------------------- reading the history
TimerIds == 1..Len(timer)
Max(S) == CHOOSE x \in S : \A y \in S : y <= x
Min(S) == CHOOSE x \in S : \A y \in S : x <= y

\* the positions in hist[t] of the entries of the kinds K
At(t, K) == {i \in 1..Len(hist[t]) : hist[t][i].k \in K}
\* the positions of the lifecycle calls made on t, and the last of them (0: none)
CallsOf(t) == At(t, LifecycleOps)
LastCall(t) == IF CallsOf(t) = {} THEN 0 ELSE Max(CallsOf(t))
\* the positions after i of the entries of the kinds K
AtAfter(t, K, i) == {j \in At(t, K) : j > i}
\* the values the onTick events after position i carried, in order
IsTick(e) == e.k = "onTick"
TicksAfter(t, i) == SelectSeq(SubSeq(hist[t], i + 1, Len(hist[t])), IsTick)
\* ceil(a / b) for a >= 0, b > 0
Ceil(a, b) == (a + b - 1) \div b

\* Position i of hist[t] is a Start or Resume whose run nothing has touched
\* since: no lifecycle call came after it, and no other loop of the timer
\* has ticked after it.
UninterruptedRun(t, i) ==
    /\ i # 0
    /\ i = LastCall(t)
    /\ hist[t][i].k \in {"Start", "Resume"}
    /\ \A j \in AtAfter(t, {"onTick"}, i) : hist[t][j].th = hist[t][i].th

\* the run spawned at position i has set the status Completed
RunCompleted(t, i) == \E j \in AtAfter(t, {"Completed"}, i) : hist[t][j].th = hist[t][i].th

\* C2: in an uninterrupted run started with r >= 0 remaining and tick T, the
\* k-th onTick carries r - (k-1)*T (the remaining time before that tick's
\* decrement), and once the run has completed there are ceil(r/T)+1 of
\* them, the last carrying r - ceil(r/T)*T, which is zero or negative and
\* not clamped.
C2_TickValues ==
    \A t \in TimerIds :
        LET i == LastCall(t) IN
        (UninterruptedRun(t, i) /\ hist[t][i].v >= 0) =>
            LET r == hist[t][i].v
                T == timer[t].Tick
                ticks == TicksAfter(t, i)
            IN  /\ \A k \in 1..Len(ticks) : ticks[k].v = r - (k - 1) * T
                /\ RunCompleted(t, i) =>
                      /\ Len(ticks) = Ceil(r, T) + 1
                      /\ ticks[Len(ticks)].v = r - Ceil(r, T) * T
                      /\ ticks[Len(ticks)].v <= 0
                /\ ~RunCompleted(t, i) => Len(ticks) < Ceil(r, T)

\* C2's case: the run of a timer of duration 3 and tick 2 has completed,
\* its last onTick carrying -1
C2_Witness ==
    \E t \in TimerIds :
        /\ UninterruptedRun(t, LastCall(t))
        /\ RunCompleted(t, LastCall(t))
        /\ hist[t][LastCall(t)].v = 3
        /\ timer[t].Tick = 2
        /\ Len(TicksAfter(t, LastCall(t))) = 3
        /\ TicksAfter(t, LastCall(t))[3].v = -1

\* A timer made by CreateTimer with Duration D and Tick T, started once and
\* left alone (Start is the only call made on it), whose run has completed.
LeftAlone(t, D, T) ==
    /\ made[t].by = "CreateTimer"
    /\ timer[t].Duration = D
    /\ timer[t].Tick = T
    /\ CallsOf(t) = {1}
    /\ hist[t][1].k = "Start"
    /\ RunCompleted(t, 1)

\* the position of the only entry of kind k and status s (0: not exactly one)
Only(t, k, s) ==
    LET P == {i \in At(t, {k}) : hist[t][i].s = s}
    IN  IF Cardinality(P) = 1 THEN CHOOSE i \in P : TRUE ELSE 0

\* the statuses the statusChanged events announced, in order
IsStatusChanged(e) == e.k = "statusChanged"
Announced(t) ==
    LET sc == SelectSeq(hist[t], IsStatusChanged)
    IN  [n \in 1..Len(sc) |-> sc[n].s]

\* the values the onTick events carried, in order
TickValues(t) ==
    LET ticks == TicksAfter(t, 0)
    IN  [n \in 1..Len(ticks) |-> ticks[n].v]

\* C3 as claimed: in the scenario D=3, T=1, every onTick, the last one
\* carrying 0 included, is published before onCompleted; onCompleted before
\* the statusChanged that announces Completed; statusChanged twice, for
\* Running and for Completed.
C3_OrderAsClaimed ==
    \A t \in TimerIds :
        LeftAlone(t, 3, 1) =>
            /\ TickValues(t) = <<3, 2, 1, 0>>
            /\ Only(t, "completed", Completed) # 0
            /\ \A i \in At(t, {"onTick"}) : i < Only(t, "completed", Completed)
            /\ Only(t, "completed", Completed) < Only(t, "statusChanged", Completed)
            /\ Announced(t) = <<Running, Completed>>

\* C3, amended: in the scenario D=3, T=1, the onTicks carrying 3, 2, 1 are
\* published before onCompleted; onCompleted before the statusChanged that
\* announces Completed; the last onTick, carrying 0, after that
\* statusChanged; statusChanged twice, for Running and for Completed.
C3_Order ==
    \A t \in TimerIds :
        LeftAlone(t, 3, 1) =>
            LET c == Only(t, "completed", Completed)
                sc == Only(t, "statusChanged", Completed)
                last == Max(At(t, {"onTick"}))
            IN  /\ TickValues(t) = <<3, 2, 1, 0>>
                /\ c # 0
                /\ \A i \in At(t, {"onTick"}) \ {last} : i < c
                /\ c < sc
                /\ sc < last
                /\ Announced(t) = <<Running, Completed>>

\* C3's case: the scenario has run to completion
C3_Witness == \E t \in TimerIds : LeftAlone(t, 3, 1) /\ Len(TicksAfter(t, 0)) = 4

\* ---------------------------------------------------------------- claims
\* the entry "return" of the call at position i: the first "return" after i,
\* if it comes before the next call (0: the call has not returned)
ReturnOf(t, i) ==
    LET R == {j \in AtAfter(t, {"return"}, i) : \A c \in CallsOf(t) : ~(i < c /\ c < j)}
    IN  IF R = {} THEN 0 ELSE Min(R)
\* the call before position i, and the call after it (0: none)
CallBefore(t, i) ==
    LET B == {j \in CallsOf(t) : j < i} IN IF B = {} THEN 0 ELSE Max(B)
CallAfter(t, i) ==
    LET A == {j \in CallsOf(t) : j > i} IN IF A = {} THEN 0 ELSE Min(A)
\* the position of the Start or Resume that spawned thread th of timer t
SpawnedAt(t, th) == CHOOSE i \in At(t, {"Start", "Resume"}) : hist[t][i].th = th
\* the onTick events thread th published after position i, in order
TicksOfAfter(t, th, i) ==
    LET Mine(e) == e.k = "onTick" /\ e.th = th
    IN  SelectSeq(SubSeq(hist[t], i + 1, Len(hist[t])), Mine)
\* Destroy has been entered on t (called, or by the loop) before position i
DestroyedBefore(t, i) == \E j \in At(t, {"Destroy", "autoDestroy"}) : j < i

\* C1: Start on a timer made with D > 0, T > 0 whose status is Stopped, with
\* no lifecycle call after it, reaches Completed after exactly ceil(D/T)
\* suspensions of the loop, with ceil(D/T)+1 onTick and one onCompleted
\* published in the run.  "Eventually" is stated for the scheduler that ends
\* every task.wait: until Completed the loop is suspended in task.wait, and
\* it has suspended at most ceil(D/T) times.
StartedOnStopped(t, i) ==
    /\ i # 0
    /\ i = LastCall(t)
    /\ made[t].by = "CreateTimer"
    /\ timer[t].Duration > 0
    /\ hist[t][i].k = "Start"
    /\ hist[t][i].s = Stopped

RunCounts(t, i) ==
    LET th == hist[t][i].th
        n == Ceil(timer[t].Duration, timer[t].Tick)
        waits == {j \in AtAfter(t, {"wait"}, i) : hist[t][j].th = th}
    IN  IF RunCompleted(t, i)
        THEN /\ Cardinality(waits) = n
             /\ Len(TicksAfter(t, i)) = n + 1
             /\ Cardinality(AtAfter(t, {"completed"}, i)) = 1
        ELSE /\ thread[t][th] = "waiting"
             /\ Cardinality(waits) <= n

C1_StartCompletes ==
    \A t \in TimerIds : StartedOnStopped(t, LastCall(t)) => RunCounts(t, LastCall(t))

\* C1 on the timers Destroy has not been entered on before the Start
C1_BeforeDestroy ==
    \A t \in TimerIds :
        (StartedOnStopped(t, LastCall(t)) /\ ~DestroyedBefore(t, LastCall(t)))
            => RunCounts(t, LastCall(t))

\* C4: while a timer is Paused and no lifecycle call is made on it, no onTick
\* is published for it and its remainingTime does not change (a Stop or a
\* Destroy made during the pause is not held against the claim); and Start
\* followed by Pause before the first tick leaves remainingTime as it was
\* before Start, the status Paused, and no onTick published.
PausedIsQuiet(t) ==
    (timer[t].Status = Paused /\ CallsOf(t)' = CallsOf(t)) =>
        /\ At(t, {"onTick"})' = At(t, {"onTick"})
        /\ timer'[t].RemainingTime = timer[t].RemainingTime

PausedBeforeFirstTick(t) ==
    \A p \in At(t, {"Pause"}) :
        LET j == CallBefore(t, p) IN
        (j # 0 /\ hist[t][j].k = "Start" /\ {n \in At(t, {"onTick"}) : j < n /\ n < p} = {}) =>
            /\ ReturnOf(t, p) # 0
            /\ hist[t][ReturnOf(t, p)].v = hist[t][j].v
            /\ hist[t][ReturnOf(t, p)].s = Paused
            /\ {n \in At(t, {"onTick"}) : j < n /\ n < ReturnOf(t, p)} = {}

C4_PausedIsQuiet ==
    /\ [][\A t \in TimerIds : PausedIsQuiet(t)]_vars
    /\ [](\A t \in TimerIds : PausedBeforeFirstTick(t))

\* C5: Resume on a Paused timer leaves remainingTime as it is; with no call
\* after the Resume, the first onTick after it carries the remainingTime r
\* the timer had when Pause returned, and the run completes after ceil(r/T)
\* ticks of the loop (and the last onTick).
ResumeContinues(t, i) ==
    LET p == CallBefore(t, i)
        r == hist[t][ReturnOf(t, p)].v
        ticks == TicksAfter(t, i)
    IN  /\ hist[t][p].k = "Pause"
        /\ hist[t][ReturnOf(t, i)].v = hist[t][i].v
        /\ i = LastCall(t) =>
              /\ Len(ticks) > 0 => ticks[1].v = r
              /\ RunCompleted(t, i) => Len(ticks) = Ceil(r, timer[t].Tick) + 1

C5_ResumeContinues ==
    \A t \in TimerIds : \A i \in At(t, {"Resume"}) : ResumeContinues(t, i)

\* C5 on the timers Destroy has not been entered on before the Resume
C5_BeforeDestroy ==
    \A t \in TimerIds : \A i \in At(t, {"Resume"}) :
        ~DestroyedBefore(t, i) => ResumeContinues(t, i)

\* C6: Stop on a timer that is Running, Paused or Completed leaves it Stopped
\* with remainingTime = duration, and the loop of a Start made next
\* publishes duration as its first onTick.
StopResets(t, i) ==
    LET ret == ReturnOf(t, i)
        j == CallAfter(t, i)
    IN  /\ hist[t][i].s \in {Running, Paused, Completed}
        /\ ret # 0
        /\ hist[t][ret].s = Stopped
        /\ hist[t][ret].v = timer[t].Duration
        /\ (j # 0 /\ hist[t][j].k = "Start") =>
              LET ticks == TicksOfAfter(t, hist[t][j].th, j)
              IN  Len(ticks) > 0 => ticks[1].v = timer[t].Duration

C6_StopResets ==
    \A t \in TimerIds : \A i \in At(t, {"Stop"}) : StopResets(t, i)

\* C6 on the timers Destroy has not been entered on before the Stop, nor
\* called on since
C6_BeforeDestroy ==
    \A t \in TimerIds : \A i \in At(t, {"Stop"}) :
        (~DestroyedBefore(t, i) /\ At(t, {"Destroy"}) = {}) => StopResets(t, i)

\* C7: once Destroy has been called on a timer, whatever its status was, the
\* registry does not map the timer's name to it.
C7_DestroyUnregisters ==
    \A t \in TimerIds : At(t, {"Destroy"}) # {} => Lookup(timer[t].Name) # t

\* C8: once a Pause, Stop or Destroy call has returned, no loop that was in
\* flight before the call publishes onTick or onCompleted (a loop publishes
\* onTick with every decrement of remainingTime).
C8_NoStaleLoop ==
    \A t \in TimerIds : \A i \in At(t, {"Pause", "Stop", "Destroy"}) :
        ReturnOf(t, i) # 0 =>
            \A j \in AtAfter(t, {"onTick", "completed"}, i) :
                hist[t][j].th # 0 => SpawnedAt(t, hist[t][j].th) > i

\* C9: when the loop of a timer whose AutoDestroy is true exhausts the
\* remaining time while Running, the Destroy it calls runs to its end: with
\* no call from outside, the timer is out of the registry and its three
\* notification channels are released.
C9_AutoDestroyCompletes ==
    \A t \in TimerIds : \A a \in At(t, {"autoDestroy"}) :
        LastCall(t) < a =>
            /\ At(t, {"destroyed"}) # {}
            /\ Lookup(timer[t].Name) # t
            /\ ~timer[t].completed /\ ~timer[t].statusChanged /\ ~timer[t].onTick

\* C10: a timer created with AutoDestroy: false whose countdown has completed
\* (and that no call was made on since) is still in the registry, its status
\* is Completed, and Destroy has not been entered on it.
Overwritten(t) ==
    \E u \in TimerIds : u > t /\ made[u].by = "CreateTimer" /\ timer[u].Name = timer[t].Name

C10_NoAutoDestroyWhenFalse ==
    \A t \in TimerIds :
        (made[t].askedFalse /\ \E c \in At(t, {"Completed"}) : LastCall(t) < c) =>
            /\ Lookup(timer[t].Name) = t \/ Overwritten(t)
            /\ timer[t].Status = Completed
            /\ At(t, {"autoDestroy", "Destroy"}) = {}

\* C11: over any sequence of calls on several timers, a timer CreateTimer
\* returned, on which Destroy has not been called (by a caller or by its
\* loop) and whose name no later CreateTimer has taken, is found under its
\* name; a timer on which Destroy has run to its end is not found under its
\* name.  So Destroy on one timer never removes the entry of another.
C11_RegistryInvariant ==
    \A t \in TimerIds :
        /\ (/\ made[t].by = "CreateTimer"
            /\ At(t, {"Destroy", "autoDestroy"}) = {}
            /\ ~Overwritten(t)) => Lookup(timer[t].Name) = t
        /\ At(t, {"destroyed"}) # {} => Lookup(timer[t].Name) # t

\* this step is a call of op that ended with result
CallStep(op, result) ==
    /\ outcome'.op = op
    /\ outcome'.result = result
    /\ <<outcome, calls>>' # <<outcome, calls>>

\* C12: a CreateTimer (on the server) whose name is already registered does
\* not fail; afterwards the registry has the same names, one entry for that
\* name, which is the new timer; the timer registered before is no longer
\* found by name, is left as it was, and the calls made on it later go on
\* as on any timer (they raise no error, and are ignored only in the
\* statuses their guards name).
SameNameCreate ==
    LET new == Len(timer) + 1
        name == timer'[new].Name
        first == Lookup(name)
    IN  (CallStep("CreateTimer", "returned") /\ first # None) =>
            /\ Len(timer') = new
            /\ DOMAIN Timers' = DOMAIN Timers
            /\ Timers'[name] = new
            /\ \A n \in DOMAIN Timers \ {name} : Timers'[n] = Timers[n]
            /\ Timers'[name] # first
            /\ timer'[first] = timer[first]
            /\ thread'[first] = thread[first]
            /\ hist'[first] = hist[first]

CreateReturns ==
    (outcome'.op = "CreateTimer" /\ outcome'.isServer /\ outcome' # outcome)
        => outcome'.result = "returned"

\* the status in which a call of op is ignored
IgnoredIn(op, status) ==
    \/ op = "Start" /\ status = Running
    \/ op = "Pause" /\ status # Running
    \/ op = "Resume" /\ status # Paused
    \/ op = "Stop" /\ status = Stopped

WorksUnregistered(t) ==
    (/\ Overwritten(t)
     /\ outcome'.t = t
     /\ outcome'.op \in LifecycleOps
     /\ <<outcome, calls>>' # <<outcome, calls>>) =>
        /\ outcome'.result # "error"
        /\ outcome'.result = "ignored" <=> IgnoredIn(outcome'.op, timer[t].Status)

C12_SameNameOverwrites ==
    [][SameNameCreate /\ CreateReturns /\ \A t \in TimerIds : WorksUnregistered(t)]_vars

\* C12's case: two timers were created under one name, the registry holds
\* the second, and the first, started through its handle, is running and
\* has published a tick
C12_Witness ==
    /\ Len(timer) = 2
    /\ made[1].by = "CreateTimer" /\ made[2].by = "CreateTimer"
    /\ timer[1].Name = timer[2].Name
    /\ DOMAIN Timers = {timer[1].Name}
    /\ Lookup(timer[1].Name) = 2
    /\ timer[1].Status = Running
    /\ At(1, {"onTick"}) # {}

\* C13: a CreateTimer call made where IsServer() is false raises an error
\* and changes nothing: no timer exists that did not before (none is
\* returned), the registry has the entries it had, and no timer was touched.
CreateOffServer ==
    (/\ outcome'.op = "CreateTimer"
     /\ ~outcome'.isServer
     /\ <<outcome, calls>>' # <<outcome, calls>>) =>
        /\ outcome'.result = "error"
        /\ outcome'.t = 0
        /\ Timers' = Timers
        /\ timer' = timer
        /\ UNCHANGED <<thread, hist, made>>

C13_ContextError == [][CreateOffServer]_vars

\* C13's case: with a timer registered, a CreateTimer call made off the
\* server has just failed
C13_Witness ==
    /\ outcome.op = "CreateTimer"
    /\ ~outcome.isServer
    /\ outcome.result = "error"
    /\ Len(timer) >= 1
    /\ DOMAIN Timers # {}

\* C14: the timer a CreateTimer call returns has status Stopped and
\* remainingTime = duration; and in every state, and at every event
\* published or call made on the way, the status of every timer is one of
\* Stopped, Running, Paused, Completed.
FourStatuses == {Stopped, Running, Paused, Completed}

CreatedStopped ==
    CallStep("CreateTimer", "returned") =>
        LET new == timer'[outcome'.t]
        IN  /\ outcome'.t = Len(timer) + 1
            /\ new.Status = Stopped
            /\ new.RemainingTime = new.Duration

StatusInRange ==
    \A t \in TimerIds :
        /\ timer[t].Status \in FourStatuses
        /\ \A i \in 1..Len(hist[t]) : hist[t][i].s \in FourStatuses

C14_Statuses == [][CreatedStopped]_vars /\ []StatusInRange

\* C14's case: a timer CreateTimer made has been Running, Paused and
\* Completed, and is Stopped now
C14_Witness ==
    \E t \in TimerIds :
        /\ made[t].by = "CreateTimer"
        /\ timer[t].Status = Stopped
        /\ {Running, Paused, Completed} \subseteq {hist[t][i].s : i \in 1..Len(hist[t])}

\* C15: a Start made when the status is Running, a Pause when it is not
\* Running, a Resume when it is not Paused, a Stop when it is Stopped raises
\* no error (it returns at its guard), publishes nothing, spawns and
\* cancels no loop, and leaves the timer (status, remainingTime,
\* timerThread among its fields) and the registry as they were.
NoOpCall(t, op) ==
    (/\ outcome'.op = op
     /\ outcome'.t = t
     /\ <<outcome, calls>>' # <<outcome, calls>>
     /\ IgnoredIn(op, timer[t].Status)) =>
        /\ outcome'.result = "ignored"
        /\ timer' = timer
        /\ Timers' = Timers
        /\ thread' = thread
        /\ hist' = hist
        /\ UNCHANGED <<made, calls>>

C15_NoOpCalls ==
    [][\A t \in TimerIds : \A op \in {"Start", "Pause", "Resume", "Stop"} : NoOpCall(t, op)]_vars

\* C15's case: a Stop has just been made on a timer that had run and was
\* Stopped, and was ignored
C15_Witness ==
    /\ outcome.op = "Stop"
    /\ outcome.result = "ignored"
    /\ timer[outcome.t].Status = Stopped
    /\ At(outcome.t, {"onTick"}) # {}

\* C16: Copy leaves every existing timer and the registry as they were and
\* returns a new timer that is not registered, has no loop, and has the
\* original's duration, tick and remainingTime; afterwards a call or a tick
\* on the copy leaves the original's status, remainingTime and timerThread
\* as they were, and a call or a tick on the original leaves the copy's.
CopyStep ==
    CallStep("Copy", "returned") =>
        LET new == outcome'.t
            o == made'[new].of
        IN  /\ new = Len(timer) + 1
            /\ o \in TimerIds
            /\ \A u \in TimerIds : timer'[u] = timer[u] /\ thread'[u] = thread[u] /\ hist'[u] = hist[u]
            /\ Timers' = Timers
            /\ \A n \in DOMAIN Timers' : Timers'[n] # new
            /\ timer'[new].timerThread = None
            /\ thread'[new] = <<>>
            /\ timer'[new].Duration = timer[o].Duration
            /\ timer'[new].Tick = timer[o].Tick
            /\ timer'[new].RemainingTime = timer[o].RemainingTime

\* this step is a call on t, or a step of one of its loops
Touches(t) ==
    \/ outcome'.t = t /\ <<outcome, calls>>' # <<outcome, calls>>
    \/ thread'[t] # thread[t]
    \/ hist'[t] # hist[t]

Untouched(t) ==
    /\ timer'[t].Status = timer[t].Status
    /\ timer'[t].RemainingTime = timer[t].RemainingTime
    /\ timer'[t].timerThread = timer[t].timerThread
    /\ thread'[t] = thread[t]

Independent ==
    \A c \in TimerIds :
        made[c].by = "Copy" =>
            /\ Touches(c) => Untouched(made[c].of)
            /\ Touches(made[c].of) => Untouched(c)

C16_CopyIndependent == [][CopyStep /\ Independent]_vars

\* C16's case: a timer was copied after its first tick (remainingTime 1 of
\* 2), then ran to completion, and the copy still has remainingTime 1
C16_Witness ==
    \E c \in TimerIds :
        /\ made[c].by = "Copy"
        /\ timer[c].Duration = 2
        /\ timer[c].RemainingTime = 1
        /\ timer[c].timerThread = None
        /\ At(made[c].of, {"Completed"}) # {}
        /\ timer[made[c].of].RemainingTime = 0

\* the loops of t suspended in task.wait: spawned, not finished, not cancelled
LiveLoops(t) == {th \in 1..Len(thread[t]) : thread[t][th] = "waiting"}

\* C17: in every state, whatever calls were made (Start after Destroy
\* included), each timer has at most one live tick loop.
C17_OneLiveLoop == \A t \in TimerIds : Cardinality(LiveLoops(t)) <= 1

\* the calls a subscriber made on t from inside the Pause or Stop at
\* position i: the Start and Resume entries after i with no "return" between
InnerCalls(t, i) ==
    {j \in AtAfter(t, {"Start", "Resume"}, i) :
        {n \in At(t, {"return"}) : i < n /\ n < j} = {}}

\* C18: in a Pause or Stop on a Running timer the loop is cancelled before
\* statusChanged is published; so when a subscriber has called Start or
\* Resume from inside the notification and the Pause or Stop has returned,
\* the loop that call spawned has not been cancelled and no other loop of
\* the timer is live.
CancelsBeforePublishing(t, i) ==
    LET pub == AtAfter(t, {"statusChanged"}, i)
    IN  (hist[t][i].s = Running /\ pub # {}) =>
            \E c \in AtAfter(t, {"cancel"}, i) : c < Min(pub)

SubscriberLoopKept(t, i) ==
    (i = LastCall(t) /\ hist[t][Len(hist[t])].k = "return") =>
        \A j \in InnerCalls(t, CallBefore(t, i)) :
            /\ thread[t][hist[t][j].th] # "cancelled"
            /\ LiveLoops(t) \subseteq {hist[t][j].th}

C18_CancelBeforeNotify ==
    \A t \in TimerIds :
        /\ \A i \in At(t, {"Pause", "Stop"}) : CancelsBeforePublishing(t, i)
        /\ \A i \in At(t, {"Start", "Resume"}) :
              (CallBefore(t, i) # 0 /\ hist[t][CallBefore(t, i)].k \in {"Pause", "Stop"})
                  => SubscriberLoopKept(t, i)

\* C18 without its first half: the loop a subscriber's Start or Resume
\* spawned inside the notification is not cancelled, and no other is live
C18_SubscriberLoopKept ==
    \A t \in TimerIds : \A i \in At(t, {"Start", "Resume"}) :
        (CallBefore(t, i) # 0 /\ hist[t][CallBefore(t, i)].k \in {"Pause", "Stop"})
            => SubscriberLoopKept(t, i)

\* C19: every Destroy call, in whatever status and however many were made
\* before, runs to its end (it raises no error and its caller is not left
\* suspended); after it the timer is Stopped, its three channels are
\* released, it has no loop and no registry entry; and a Destroy made on a
\* timer whose last call was a Destroy changes neither the timer nor the
\* registry.
DestroyedState(t) ==
    /\ timer[t].Status = Stopped
    /\ ~timer[t].onTick /\ ~timer[t].statusChanged /\ ~timer[t].completed
    /\ timer[t].timerThread = None
    /\ LiveLoops(t) = {}
    /\ Lookup(timer[t].Name) # t

DestroyCompletes ==
    \A t \in TimerIds : \A i \in At(t, {"Destroy"}) :
        /\ ReturnOf(t, i) # 0
        /\ i = LastCall(t) => DestroyedState(t)

DestroyAgain ==
    \A t \in TimerIds :
        (/\ LastCall(t) # 0
         /\ hist[t][LastCall(t)].k = "Destroy"
         /\ outcome'.op = "Destroy" /\ outcome'.t = t
         /\ calls' # calls) =>
            /\ outcome'.result = "returned"
            /\ timer'[t] = timer[t]
            /\ Timers' = Timers

C19_DestroyIdempotent == []DestroyCompletes /\ [][DestroyAgain]_vars

\* C20: in every state between calls, a timer made by CreateTimer or Copy
\* is Running exactly when timerThread holds a live loop of its own: a
\* Running timer has one, and a timer that is not Running holds no thread
\* (neither a finished nor a stale one).
C20_RunningIffLoop ==
    \A t \in TimerIds :
        /\ timer[t].Status = Running =>
              /\ timer[t].timerThread # None
              /\ timer[t].timerThread \in LiveLoops(t)
        /\ timer[t].Status # Running => timer[t].timerThread = None

\* the first half of C20 on the timers CreateTimer made, Destroy not entered
C20_RunningHasLoop ==
    \A t \in TimerIds :
        (/\ made[t].by = "CreateTimer"
         /\ At(t, {"Destroy", "autoDestroy"}) = {}
         /\ timer[t].Status = Running) => timer[t].timerThread \in LiveLoops(t)
====
